---- MODULE Spec2Model ----
(***************************************************************************)
(* Card / payment reconciliation of the NFC refill demo.                   *)
(*                                                                         *)
(* The model follows src/src/app/page.tsx (component HomeContent) together *)
(* with the two gateway proxy routes.  Balances are kept in cents (the tag *)
(* text is "BAL:" + toFixed(2)), amounts in whole ETB.  React state lives  *)
(* in the page variables and is lost on every page load; localStorage      *)
(* (lsAppState, lsPendingCard) survives it.  Every handler is cut at its   *)
(* awaits: one action per synchronous stretch, each followed by the        *)
(* re-render and the "save state" effect when one of its dependencies      *)
(* changed.                                                                *)
(***************************************************************************)
EXTENDS Integers, Sequences, FiniteSets, TLC

\* ------------------------------------------------------------------ bounds
MaxRefs == 2          \* checkouts the gateway initialises in one run
MaxReaders == 2       \* NDEFReader objects scanning at the same time
MaxCredits == 2       \* payment writes that may land on tags in one run
MaxCents == 150       \* balances encoded and decoded: -1.50 .. 1.50 ETB
MaxTextLen == 4       \* characters of the text record that is decoded
MaxJunk == 1          \* records without a number in front of it
MaxBase == 120        \* base amounts (whole ETB) a receipt is built for

\* --------------------------------------------------------------- constants
MAX_AMOUNT == 10000
DEFAULT_USER_AMOUNT == 50
\* the amount every checkout is initialised with (amount: "1")
CHARGE_AMOUNT == 1

Refs == 1..MaxRefs
Serials == {"A1", "B2"}
AmountInputs == {"abc", "0", "50", "10005"}

\* Number(amount) for the strings the amount state can hold; "abc" gives NaN
IsNaN(s) == s = "abc"
NumberOf(s) ==
  CASE s = "0" -> 0
    [] s = "7" -> 7
    [] s = "50" -> 50
    [] s = "10005" -> 10005
    [] OTHER -> 0

\* the amount input: type="number" min={5} step={5}
AMOUNT_MIN == 5
AMOUNT_STEP == 5
\* the input's stepMismatch for the number in s
stepMismatch(s) == ~IsNaN(s) /\ (NumberOf(s) - AMOUNT_MIN) % AMOUNT_STEP # 0
\* amounts the refill form is submitted with, among them one off the step
FormAmounts == AmountInputs \cup {"7"}

\* amount checks without the upper limit
validateAmountNoLimit(s) ==
  IF IsNaN(s) \/ NumberOf(s) <= 0 THEN "amountNotPositive" ELSE "ok"

\* the amount checks of handleChapaRefill, in the order of the code
validateAmount(s) ==
  IF IsNaN(s) \/ NumberOf(s) <= 0 THEN "amountNotPositive"
  ELSE IF NumberOf(s) > MAX_AMOUNT THEN "amountAboveMax"
  ELSE "ok"

\* ------------------------------------------------------------ record types
NoCard == [serialNumber |-> "none", balance |-> 0]
NoPayment == [txRef |-> 0, userAmount |-> 0, cardSerial |-> "none"]
NoReceipt == [txRef |-> 0, amount |-> 0]
NoPaymentResult == [present |-> FALSE, txRef |-> 0, userAmount |-> 0]
NoPendingCard == [present |-> FALSE, serialNumber |-> "none", balance |-> 0, userAmount |-> 0]

St(tone, message) == [tone |-> tone, message |-> message]
InitialStatus == St("info", "start")

NoAppState ==
  [present |-> FALSE, card |-> NoCard, amount |-> "50",
   pendingPayment |-> NoPayment, receipt |-> NoReceipt, status |-> InitialStatus]

\* what the save effect writes under STORAGE_KEY
Snapshot(c, a, p, r, s) ==
  [present |-> TRUE, card |-> c, amount |-> a,
   pendingPayment |-> p, receipt |-> r, status |-> s]

BlankTag == [kind |-> "blank", cents |-> 0]
BalTag(c) == [kind |-> "bal", cents |-> c]

\* extractBalance on the message of a tag: found = FALSE is the null result
extractBalance(tag) ==
  IF tag.kind = "bal" THEN [found |-> TRUE, cents |-> tag.cents]
  ELSE [found |-> FALSE, cents |-> 0]

\* Number((balanceFromCard + userAmount).toFixed(2)), in cents
updatedBalanceOf(balanceCents, userAmount) == balanceCents + userAmount * 100

\* a reading handler that builds no receipt
noReceiptData(cp) == NoReceipt

\* receiptData built by the reading handler
receiptDataOf(cp) == [txRef |-> cp.txRef, amount |-> cp.userAmount]

RemoveAt(s, i) == SubSeq(s, 1, i - 1) \o SubSeq(s, i + 1, Len(s))

VARIABLES
  \* localStorage
  lsAppState, lsPendingCard, lsPaymentResult,
  \* browser
  page, urlTxRef,
  \* React state of HomeContent
  card, amount, needsReset, pendingPayment, isVerifying, receipt, status,
  nfcSupported, isReading, isWriting, isProcessing,
  \* asynchronous work of the page
  verifyReq, verifyDup, initiateReq, redirectTimer, readers, writes,
  \* environment
  tags, gw, deviceNfc, scope,
  \* observation
  applied, expired, recordOf,
  \* input and result of the pure functions examined on their own
  calc

lsVars == <<lsAppState, lsPendingCard, lsPaymentResult>>
reactVars == <<card, amount, needsReset, pendingPayment, isVerifying, receipt,
               status, nfcSupported, isReading, isWriting, isProcessing>>
asyncVars == <<verifyReq, verifyDup, initiateReq, redirectTimer, readers, writes>>
envVars == <<tags, gw, deviceNfc, scope>>
obsVars == <<applied, expired, recordOf>>
vars == <<lsVars, page, urlTxRef, reactVars, asyncVars, envVars, obsVars, calc>>

\* What one run follows: several readers and payment writes around one
\* checkout ("oneCheckout"), or several checkouts one after the other with a
\* single reader, a single payment write and return URLs opened at any time
\* ("manyCheckouts").
RefLimit ==
  IF scope \in {"oneCheckout", "blankCard", "verifiedTwice", "server"} THEN 1
  ELSE MaxRefs
ReaderLimit == IF scope = "oneCheckout" THEN MaxReaders ELSE 1
CreditLimit == IF scope = "oneCheckout" THEN MaxCredits ELSE 1
\* may a return URL be opened again while the page is open (history, a
\* second tab's link)?
RevisitAllowed == scope = "manyCheckouts"

\* no pure function is being examined
NoCalc == [fn |-> "none"]

\* the cards of the run: A1 holds 20.00 ETB, B2 holds 5.00 ETB
InitialTags == [A1 |-> BalTag(2000), B2 |-> BalTag(500)]

InitPageOn(cards) ==
  /\ lsAppState = NoAppState
  /\ lsPendingCard = NoPendingCard
  /\ lsPaymentResult = NoPaymentResult
  /\ page = "away"
  /\ urlTxRef = 0
  /\ card = NoCard
  /\ amount = "50"
  /\ needsReset = FALSE
  /\ pendingPayment = NoPayment
  /\ isVerifying = FALSE
  /\ receipt = NoReceipt
  /\ status = InitialStatus
  /\ nfcSupported = FALSE
  /\ isReading = FALSE
  /\ isWriting = FALSE
  /\ isProcessing = FALSE
  /\ verifyDup = 0
  /\ verifyReq = 0
  /\ initiateReq = FALSE
  /\ redirectTimer = FALSE
  /\ readers = <<>>
  /\ writes = <<>>
  /\ tags = cards
  /\ gw = [r \in Refs |-> "none"]
  /\ applied = [r \in Refs |-> 0]
  /\ expired = FALSE
  /\ recordOf = 0

InitPage == InitPageOn(InitialTags)

Init == InitPage /\ scope = "oneCheckout" /\ deviceNfc = TRUE /\ calc = NoCalc
InitMany == InitPage /\ scope = "manyCheckouts" /\ deviceNfc \in BOOLEAN /\ calc = NoCalc

RECURSIVE SumOver(_, _)
SumOver(f, S) ==
  IF S = {} THEN 0
  ELSE LET x == CHOOSE y \in S : TRUE IN f[x] + SumOver(f, S \ {x})

\* payment writes that have landed on some tag so far
Credits == SumOver(applied, Refs)

\* clearAppState: both keys are removed (the save effect of the same render
\* writes STORAGE_KEY again)
clearedPendingCard == NoPendingCard

\* A page load of "/" (tx = 0) or "/?tx_ref=tx": mount of HomeContent.  The
\* load effect restores the saved state, the verify effect starts when the
\* URL carries a reference, then the first save effect runs.
PageLoad(tx) ==
  /\ \/ tx = 0
     \/ tx \in Refs /\ gw[tx] # "none" /\ (page = "away" \/ urlTxRef = tx \/ RevisitAllowed)
  /\ LET saved == lsAppState
         c == IF saved.present THEN saved.card ELSE NoCard
         a == IF saved.present /\ saved.amount # "" THEN saved.amount ELSE "50"
         p == IF saved.present THEN saved.pendingPayment ELSE NoPayment
         r == IF saved.present THEN saved.receipt ELSE NoReceipt
         s0 == IF saved.present THEN saved.status ELSE InitialStatus
         s == IF tx # 0 THEN St("info", "verifying") ELSE s0
     IN /\ card' = c
        /\ amount' = a
        /\ pendingPayment' = p
        /\ receipt' = r
        /\ status' = s
        /\ lsAppState' = Snapshot(c, a, p, r, s)
  /\ page' = "main"
  /\ urlTxRef' = tx
  /\ needsReset' = FALSE
  /\ isVerifying' = (tx # 0)
  /\ verifyDup' = 0
  /\ verifyReq' = tx
  /\ nfcSupported' = deviceNfc
  /\ isReading' = FALSE
  /\ isWriting' = FALSE
  /\ isProcessing' = FALSE
  /\ initiateReq' = FALSE
  /\ redirectTimer' = FALSE
  /\ readers' = <<>>
  /\ writes' = <<>>
  /\ UNCHANGED <<lsPendingCard, lsPaymentResult, envVars, obsVars, calc>>

\* ----------------------------------------------------------- what is shown
Step1Visible == card = NoCard /\ pendingPayment = NoPayment /\ receipt = NoReceipt
\* a refill form that stays on the page next to a receipt
Step2VisibleWithReceipt == card # NoCard /\ pendingPayment = NoPayment
Step2Visible == card # NoCard /\ pendingPayment = NoPayment /\ receipt = NoReceipt
Step3Visible == pendingPayment # NoPayment /\ receipt = NoReceipt
Step4Visible == receipt # NoReceipt

\* ------------------------------------------------------------ handleReadCard
\* A click on a read button.  scanOk = FALSE: ndef.scan() rejects.
handleReadCard(scanOk) ==
  /\ page = "main"
  /\ ~isReading
  /\ IF ~nfcSupported
     THEN /\ status' = St("alert", "nfcUnavailable")
          /\ UNCHANGED <<isReading, readers>>
     ELSE IF scanOk
     THEN /\ Len(readers) < ReaderLimit
          /\ isReading' = TRUE
          /\ status' = St("info", "holdNear")
          /\ readers' = Append(readers, pendingPayment)
     ELSE /\ isReading' = FALSE
          /\ status' = St("alert", "scanBlocked")
          /\ UNCHANGED readers
  /\ lsAppState' = Snapshot(card, amount, pendingPayment, receipt, status')
  /\ UNCHANGED <<lsPendingCard, lsPaymentResult, page, urlTxRef, card, amount, needsReset,
                 pendingPayment, isVerifying, receipt, nfcSupported, isWriting,
                 isProcessing, verifyReq, verifyDup, initiateReq, redirectTimer, writes,
                 envVars, obsVars, calc>>

\* does the handler that captured cp apply its payment to the card read?
Matches(cp, cardSerial) == cp # NoPayment /\ cp.cardSerial = cardSerial

\* the write a matching handler starts (writeBalanceToCard awaits ndef.write)
\* a write computed from the balance the page remembers
ApplyWriteRemembered(cp, cardSerial, balanceFromCard) ==
  [kind |-> "apply", value |-> updatedBalanceOf(card.balance, cp.userAmount),
   cp |-> cp, serial |-> cardSerial, phase |-> "pending", landed |-> "none"]

\* the write a matching reading starts: writeBalanceToCard(updatedBalance)
ApplyWrite(cp, cardSerial, balanceFromCard) ==
  [kind |-> "apply", value |-> updatedBalanceOf(balanceFromCard, cp.userAmount),
   cp |-> cp, serial |-> cardSerial, phase |-> "pending", landed |-> "none"]

ResetWrite ==
  [kind |-> "reset", value |-> 0, cp |-> NoPayment, serial |-> "none",
   phase |-> "pending", landed |-> "none"]

RECURSIVE StartedWrites(_, _, _)
StartedWrites(rs, cardSerial, balanceFromCard) ==
  IF rs = <<>> THEN <<>>
  ELSE (IF Matches(Head(rs), cardSerial)
        THEN <<ApplyWrite(Head(rs), cardSerial, balanceFromCard)>>
        ELSE <<>>) \o StartedWrites(Tail(rs), cardSerial, balanceFromCard)

\* A tag comes into the field: every scanning reader gets the reading event
\* and runs its onreading handler up to its first await.
onreading(t) ==
  /\ page = "main"
  /\ readers # <<>>
  /\ Len(writes) + Len(StartedWrites(readers, t, extractBalance(tags[t]).cents)) <= ReaderLimit
  /\ LET b == extractBalance(tags[t])
         started == StartedWrites(readers, t, b.cents)
         anyMatch == \E i \in 1..Len(readers) : Matches(readers[i], t)
         anyPlain == \E i \in 1..Len(readers) : ~Matches(readers[i], t)
         last == readers[Len(readers)]
     IN IF ~b.found
        THEN /\ needsReset' = TRUE
             /\ status' = St("alert", "noBalance")
             /\ isReading' = FALSE
             /\ UNCHANGED <<card, pendingPayment, isWriting, writes>>
        ELSE /\ needsReset' = FALSE
             /\ card' = [serialNumber |-> t, balance |-> b.cents]
             /\ pendingPayment' = IF anyMatch THEN NoPayment ELSE pendingPayment
             /\ isWriting' = IF anyMatch THEN TRUE ELSE isWriting
             /\ isReading' = IF anyPlain THEN FALSE ELSE isReading
             /\ status' = IF Matches(last, t) THEN St("info", "holdStill")
                          ELSE St("success", "pulled")
             /\ writes' = writes \o started
  /\ lsAppState' = Snapshot(card', amount, pendingPayment', receipt, status')
  /\ UNCHANGED <<lsPendingCard, lsPaymentResult, page, urlTxRef, amount, isVerifying, receipt,
                 nfcSupported, isProcessing, verifyReq, verifyDup, initiateReq,
                 redirectTimer, readers, envVars, obsVars, calc>>

\* ndef.onreadingerror of every scanning reader
onreadingerror ==
  /\ page = "main"
  /\ readers # <<>>
  /\ status' = St("alert", "readError")
  /\ isReading' = FALSE
  /\ lsAppState' = Snapshot(card, amount, pendingPayment, receipt, status')
  /\ UNCHANGED <<lsPendingCard, lsPaymentResult, page, urlTxRef, card, amount, needsReset,
                 pendingPayment, isVerifying, receipt, nfcSupported, isWriting,
                 isProcessing, asyncVars, envVars, obsVars, calc>>

\* --------------------------------------------------------- writeBalanceToCard
\* the "Reset card to 0 ETB" button is rendered and enabled
ResetAvailable == Step1Visible /\ needsReset /\ ~isWriting

\* The "Reset card to 0 ETB" button: writeBalanceToCard(0)
ClickResetCard ==
  /\ page = "main"
  /\ ResetAvailable
  /\ nfcSupported
  /\ Len(writes) < ReaderLimit
  /\ isWriting' = TRUE
  /\ status' = St("info", "holdStill")
  /\ writes' = Append(writes, ResetWrite)
  /\ lsAppState' = Snapshot(card, amount, pendingPayment, receipt, status')
  /\ UNCHANGED <<lsPendingCard, lsPaymentResult, page, urlTxRef, card, amount, needsReset,
                 pendingPayment, isVerifying, receipt, nfcSupported, isReading,
                 isProcessing, verifyReq, verifyDup, initiateReq, redirectTimer, readers,
                 envVars, obsVars, calc>>

\* The adapter writes the text of write i onto the tag t that is in the field
\* and acknowledges; the awaiting handler has not run yet.  A payment write
\* lands on whichever tag is held to the phone at that moment; the reset
\* write is followed only onto a tag without balance (the one being set up).
WriteLands(i, t) ==
  /\ page = "main"
  /\ i \in 1..Len(writes)
  /\ writes[i].phase = "pending"
  /\ writes[i].kind = "reset" => tags[t] = BlankTag
  /\ LET w == writes[i]
     IN /\ tags' = [tags EXCEPT ![t] = BalTag(w.value)]
        /\ writes' = [writes EXCEPT ![i].phase = "acked", ![i].landed = t]
        /\ IF w.kind = "apply"
           THEN /\ Credits < CreditLimit
                /\ applied' = [applied EXCEPT ![w.cp.txRef] = @ + 1]
           ELSE UNCHANGED applied
  /\ UNCHANGED <<lsVars, page, urlTxRef, reactVars, verifyReq, verifyDup, initiateReq,
                 redirectTimer, readers, gw, deviceNfc, scope, expired, recordOf, calc>>

\* ndef.write resolved: the rest of writeBalanceToCard and of its caller
WriteResolved(i) ==
  /\ page = "main"
  /\ i \in 1..Len(writes)
  /\ writes[i].phase = "acked"
  /\ LET w == writes[i]
     IN /\ needsReset' = FALSE
        /\ isWriting' = FALSE
        /\ writes' = RemoveAt(writes, i)
        /\ IF w.kind = "apply"
           THEN /\ card' = [serialNumber |-> w.serial, balance |-> w.value]
                /\ receipt' = receiptDataOf(w.cp)
                /\ status' = St("success", "cardUpdated")
                /\ isReading' = FALSE
                /\ UNCHANGED lsPaymentResult
                /\ lsPendingCard' = clearedPendingCard
           ELSE /\ status' = St("success", "cardWritten")
                /\ UNCHANGED <<card, receipt, isReading, lsPendingCard, lsPaymentResult>>
  /\ lsAppState' = Snapshot(card', amount, pendingPayment, receipt', status')
  /\ expired' = (expired /\ (lsPendingCard'.present \/ pendingPayment # NoPayment))
  /\ recordOf' = IF lsPendingCard'.present THEN recordOf ELSE 0
  /\ UNCHANGED <<page, urlTxRef, amount, pendingPayment, isVerifying,
                 nfcSupported, isProcessing, verifyReq, verifyDup, initiateReq,
                 redirectTimer, readers, envVars, applied, calc>>

\* a catch block that puts nothing back
nothingRestored(w) == NoPayment

\* the pending payment the catch block of the reading handler puts back
restoredPayment(w) == w.cp

\* ndef.write rejected
WriteRejected(i) ==
  /\ page = "main"
  /\ i \in 1..Len(writes)
  /\ writes[i].phase = "pending"
  /\ LET w == writes[i]
     IN /\ isWriting' = FALSE
        /\ writes' = RemoveAt(writes, i)
        /\ IF w.kind = "apply"
           THEN /\ pendingPayment' = restoredPayment(w)
                /\ status' = St("alert", "writeFailed")
                /\ isReading' = FALSE
                /\ lsAppState' = Snapshot(card, amount, pendingPayment', receipt, status')
           ELSE UNCHANGED <<pendingPayment, status, isReading, lsAppState>>
  /\ UNCHANGED <<lsPendingCard, lsPaymentResult, page, urlTxRef, card, amount, needsReset,
                 isVerifying, receipt, nfcSupported, isProcessing, verifyReq, verifyDup,
                 initiateReq, redirectTimer, readers, envVars, obsVars, calc>>

\* --------------------------------------------------------- handleChapaRefill
SetAmount(a) ==
  /\ page = "main"
  /\ Step2Visible
  /\ a # amount
  /\ amount' = a
  /\ lsAppState' = Snapshot(card, amount', pendingPayment, receipt, status)
  /\ UNCHANGED <<lsPendingCard, lsPaymentResult, page, urlTxRef, card, needsReset, pendingPayment,
                 isVerifying, receipt, status, nfcSupported, isReading, isWriting,
                 isProcessing, asyncVars, envVars, obsVars, calc>>

\* a handler that takes any snapshot for a card
cardNeverMissing(c) == FALSE

\* !card
cardMissing(c) == c = NoCard

\* handleChapaRefill called, up to the await of the POST to /api/chapa
handleChapaRefillCalled ==
  /\ page = "main"
  /\ LET parsedAmount == NumberOf(amount)
     IN IF cardMissing(card)
        THEN /\ status' = St("alert", "readFirst")
             /\ UNCHANGED <<isProcessing, lsPendingCard, lsPaymentResult, initiateReq, expired, recordOf>>
        ELSE IF validateAmount(amount) # "ok"
        THEN /\ status' = St("alert", validateAmount(amount))
             /\ UNCHANGED <<isProcessing, lsPendingCard, lsPaymentResult, initiateReq, expired, recordOf>>
        ELSE /\ isProcessing' = TRUE
             /\ status' = St("info", "connecting")
             /\ UNCHANGED lsPaymentResult
             /\ lsPendingCard' = [present |-> TRUE, serialNumber |-> card.serialNumber,
                                  balance |-> card.balance, userAmount |-> parsedAmount]
             /\ initiateReq' = TRUE
             /\ expired' = FALSE
             /\ recordOf' = 0
  /\ lsAppState' = Snapshot(card, amount, pendingPayment, receipt, status')
  /\ UNCHANGED <<page, urlTxRef, card, amount, needsReset, pendingPayment,
                 isVerifying, receipt, nfcSupported, isReading, isWriting,
                 verifyReq, verifyDup, redirectTimer, readers, writes, envVars, applied, calc>>

\* submit of the refill form: the form is rendered in step 2 and its button is
\* disabled while a request or a write is under way
handleChapaRefill ==
  /\ Step2Visible
  /\ ~isProcessing /\ ~isWriting
  /\ handleChapaRefillCalled

\* the next reference the initiate route would create (0: none left in the bound)
NextRef ==
  IF \E r \in 1..RefLimit : gw[r] = "none"
  THEN CHOOSE r \in 1..RefLimit : gw[r] = "none" /\ \A q \in Refs : q < r => gw[q] # "none"
  ELSE 0

\* The POST to /api/chapa answered.  ok: the route initialised a checkout
\* and returned its URL; otherwise an error answer, no URL, or a failed fetch.
InitiateResponse(ok) ==
  /\ page = "main"
  /\ initiateReq
  /\ initiateReq' = FALSE
  /\ IF ok
     THEN /\ NextRef # 0
          /\ gw' = [gw EXCEPT ![NextRef] = "initiated"]
          /\ recordOf' = IF lsPendingCard.present THEN NextRef ELSE 0
          /\ status' = St("info", "redirecting")
          /\ redirectTimer' = TRUE
          /\ UNCHANGED isProcessing
     ELSE /\ status' = St("alert", "initiateError")
          /\ isProcessing' = FALSE
          /\ UNCHANGED <<gw, redirectTimer, recordOf>>
  /\ lsAppState' = Snapshot(card, amount, pendingPayment, receipt, status')
  /\ UNCHANGED <<lsPendingCard, lsPaymentResult, page, urlTxRef, card, amount, needsReset,
                 pendingPayment, isVerifying, receipt, nfcSupported, isReading,
                 isWriting, verifyReq, verifyDup, readers, writes, tags, deviceNfc, scope,
                 applied, expired, calc>>

\* setTimeout(() => window.location.href = checkoutUrl, 500): the page is left
Redirect ==
  /\ page = "main"
  /\ redirectTimer
  /\ page' = "away"
  /\ urlTxRef' = 0
  /\ card' = NoCard
  /\ amount' = "50"
  /\ needsReset' = FALSE
  /\ pendingPayment' = NoPayment
  /\ isVerifying' = FALSE
  /\ receipt' = NoReceipt
  /\ status' = InitialStatus
  /\ nfcSupported' = FALSE
  /\ isReading' = FALSE
  /\ isWriting' = FALSE
  /\ isProcessing' = FALSE
  /\ verifyDup' = 0
  /\ verifyReq' = 0
  /\ initiateReq' = FALSE
  /\ redirectTimer' = FALSE
  /\ readers' = <<>>
  /\ writes' = <<>>
  /\ UNCHANGED <<lsVars, envVars, obsVars, calc>>

\* the customer pays a checkout on the gateway's page
GatewayPay(r) ==
  /\ page = "away"
  /\ gw[r] = "initiated"
  /\ gw' = [gw EXCEPT ![r] = "paid"]
  /\ UNCHANGED <<lsVars, page, urlTxRef, reactVars, asyncVars, tags, deviceNfc, scope, obsVars, calc>>

\* -------------------------------------------------------- verifyPaymentFromUrl
\* userAmount of the verify route's answer: the initiate route stores no
\* userAmount in the checkout's meta, so the route's fallback applies
verifyRouteUserAmount(r) == DEFAULT_USER_AMOUNT

\* if (storedCard): is there a card record of a checkout to promote?
storedCardFound(stored) == stored.present

\* the amount the gateway charges and confirms for reference r: the initiate
\* route sends the same fixed amount for every checkout
gatewayAmount(r) == CHARGE_AMOUNT

\* a page that takes every answer of the verify route for a confirmation
anyAnswer(outcome) == TRUE

\* payload.status === "success"
payloadSuccess(outcome) == outcome = "success"

\* The rest of verifyPaymentFromUrl once the fetch for tx has settled with
\* "success", "failed" (a status other than success) or "error" (not ok, or
\* the fetch failed).
verifyAnswered(tx, outcome) ==
  /\ outcome = "success" => gw[tx] = "paid"
  /\ outcome = "failed" => gw[tx] # "paid"
  /\ IF payloadSuccess(outcome) /\ storedCardFound(lsPendingCard)
     THEN /\ pendingPayment' = [txRef |-> tx,
                                userAmount |-> verifyRouteUserAmount(tx),
                                cardSerial |-> lsPendingCard.serialNumber]
          /\ status' = St("success", "confirmed")
     ELSE /\ status' = St("alert", CASE outcome = "success" -> "cardInfoLost"
                                     [] outcome = "failed" -> "notCompleted"
                                     [] OTHER -> "verifyError")
          /\ UNCHANGED pendingPayment
  /\ UNCHANGED lsPaymentResult
  /\ lsPendingCard' = clearedPendingCard
  /\ isVerifying' = FALSE
  /\ urlTxRef' = 0
  /\ lsAppState' = Snapshot(card, amount, pendingPayment', receipt, status')
  /\ expired' = (expired /\ pendingPayment' # NoPayment)
  /\ recordOf' = 0
  /\ UNCHANGED <<page, card, amount, needsReset, receipt, nfcSupported, isReading,
                 isWriting, isProcessing, initiateReq, redirectTimer, readers,
                 writes, envVars, applied, calc>>

\* the fetch of /api/chapa/verify settled
VerifyResponse(outcome) ==
  /\ page = "main"
  /\ verifyReq # 0
  /\ verifyAnswered(verifyReq, outcome)
  /\ verifyReq' = 0
  /\ UNCHANGED verifyDup

\* The effect of verifyPaymentFromUrl runs a second time for the same URL
\* while its first fetch is in flight (the effect is mounted twice, or a
\* duplicate event fires it): a second fetch for the same reference.
EffectRunsAgain ==
  /\ page = "main"
  /\ verifyReq # 0
  /\ verifyDup = 0
  /\ verifyDup' = verifyReq
  /\ isVerifying' = TRUE
  /\ status' = St("info", "verifying")
  /\ lsAppState' = Snapshot(card, amount, pendingPayment, receipt, status')
  /\ UNCHANGED <<lsPendingCard, lsPaymentResult, page, urlTxRef, card, amount,
                 needsReset, pendingPayment, receipt, nfcSupported, isReading,
                 isWriting, isProcessing, verifyReq, initiateReq, redirectTimer,
                 readers, writes, envVars, obsVars, calc>>

\* the second fetch settled
DupVerifyResponse(outcome) ==
  /\ page = "main"
  /\ verifyDup # 0
  /\ verifyAnswered(verifyDup, outcome)
  /\ verifyDup' = 0
  /\ UNCHANGED verifyReq

\* ---------------------------------------------------------------- resetToHome
resetToHome ==
  /\ page = "main"
  /\ Step4Visible
  /\ card' = NoCard
  /\ amount' = "50"
  /\ receipt' = NoReceipt
  /\ pendingPayment' = NoPayment
  /\ status' = InitialStatus
  /\ UNCHANGED lsPaymentResult
  /\ lsPendingCard' = clearedPendingCard
  /\ lsAppState' = Snapshot(card', amount', pendingPayment', receipt', status')
  /\ expired' = FALSE
  /\ recordOf' = 0
  /\ UNCHANGED <<page, urlTxRef, needsReset, isVerifying, nfcSupported, isReading,
                 isWriting, isProcessing, asyncVars, envVars, applied, calc>>

\* ----------------------------------------------------------------------- time
\* a payment is pending somewhere in the persistent store
PersistedPending ==
  lsPendingCard.present \/ (lsAppState.present /\ lsAppState.pendingPayment # NoPayment)

\* more than the spec's TTL of 5 minutes passes since the pending record was made
TtlElapses ==
  /\ PersistedPending \/ pendingPayment # NoPayment
  /\ ~expired
  /\ expired' = TRUE
  /\ UNCHANGED <<lsVars, page, urlTxRef, reactVars, asyncVars, envVars, applied,
                 recordOf, calc>>

\* the reconciliation itself: page loads, reads, writes, checkout, verification
Next ==
  \/ \E tx \in 0..MaxRefs : PageLoad(tx)
  \/ handleReadCard(TRUE)
  \/ \E t \in Serials : onreading(t)
  \/ \E i \in 1..MaxReaders, t \in Serials : WriteLands(i, t)
  \/ \E i \in 1..MaxReaders : WriteResolved(i)
  \/ \E i \in 1..MaxReaders : WriteRejected(i)
  \/ handleChapaRefill
  \/ \E ok \in BOOLEAN : InitiateResponse(ok)
  \/ Redirect
  \/ \E r \in Refs : GatewayPay(r)
  \/ \E outcome \in {"success", "failed", "error"} : VerifyResponse(outcome)
  \/ resetToHome
  \/ TtlElapses

\* the same with the amount input, blocked scans and reading errors
NextMany ==
  \/ Next
  \/ \E a \in AmountInputs : SetAmount(a)
  \/ handleReadCard(FALSE)
  \/ onreadingerror

Spec == Init /\ [][Next]_vars
SpecMany == InitMany /\ [][NextMany]_vars

\* ------------------------------------------------------- a card never set up
\* the cards of the run: A1 holds 20.00 ETB, B2 carries no balance record
TagsWithBlank == [A1 |-> BalTag(2000), B2 |-> BlankTag]

InitBlank ==
  InitPageOn(TagsWithBlank) /\ scope = "blankCard" /\ deviceNfc = TRUE /\ calc = NoCalc

\* one checkout with a single reader, the reset button, blocked scans and
\* reading errors
NextBlank ==
  \/ Next
  \/ ClickResetCard
  \/ handleReadCard(FALSE)
  \/ onreadingerror

SpecBlank == InitBlank /\ [][NextBlank]_vars

\* ------------------------------------------------- a verification run twice
InitTwice == InitPage /\ scope = "verifiedTwice" /\ deviceNfc = TRUE /\ calc = NoCalc

\* one checkout whose verification effect may run a second time
NextTwice ==
  \/ Next
  \/ EffectRunsAgain
  \/ \E outcome \in {"success", "failed", "error"} : DupVerifyResponse(outcome)

SpecTwice == InitTwice /\ [][NextTwice]_vars

\* ------------------------------------------------- one checkout after another
InitAgain == InitPage /\ scope = "checkoutAgain" /\ deviceNfc = TRUE /\ calc = NoCalc

\* several checkouts one after the other, each return URL opened once
SpecAgain == InitAgain /\ [][Next]_vars

\* ------------------------------------------------- the refill handler alone
InitHandler == InitPage /\ scope = "refillHandler" /\ deviceNfc = TRUE /\ calc = NoCalc

\* handleChapaRefill called in whatever state the page is in, also where
\* the page renders no refill form
NextHandler ==
  \/ PageLoad(0)
  \/ handleReadCard(TRUE)
  \/ \E t \in Serials : onreading(t)
  \/ \E a \in AmountInputs : SetAmount(a)
  \/ handleChapaRefillCalled
  \/ \E ok \in BOOLEAN : InitiateResponse(ok)
  \/ Redirect

SpecHandler == InitHandler /\ [][NextHandler]_vars

\* ------------------------------------------------------------ the refill form
InitForm == InitPage /\ scope = "refillForm" /\ deviceNfc = TRUE /\ calc = NoCalc

\* a card is read, amounts are typed and the form is submitted
NextForm ==
  \/ PageLoad(0)
  \/ handleReadCard(TRUE)
  \/ \E t \in Serials : onreading(t)
  \/ \E a \in FormAmounts : SetAmount(a)
  \/ handleChapaRefill
  \/ \E ok \in BOOLEAN : InitiateResponse(ok)
  \/ Redirect

SpecForm == InitForm /\ [][NextForm]_vars

\* ------------------------------------------------------------ the return page
\* The gateway sends the browser to the return_url of the checkout,
\* <origin>/chapa/return.  The route puts no tx_ref in it; tx is what the
\* gateway adds of its own accord: nothing (0) or the reference.
ReturnPageLoad(tx) ==
  /\ page = "away"
  /\ \E r \in Refs : gw[r] # "none"
  /\ tx = 0 \/ (tx \in Refs /\ gw[tx] # "none")
  /\ page' = "return"
  /\ urlTxRef' = tx
  /\ verifyDup' = 0
  /\ verifyReq' = tx
  /\ redirectTimer' = (tx = 0)
  /\ status' = IF tx = 0 THEN St("alert", "missingRef") ELSE St("info", "verifying")
  /\ UNCHANGED <<lsVars, card, amount, needsReset, pendingPayment, isVerifying,
                 receipt, nfcSupported, isReading, isWriting, isProcessing,
                 initiateReq, readers, writes, envVars, obsVars, calc>>

\* verifyPayment of the return page: the answer of /api/chapa/verify
ReturnVerifyResponse(outcome) ==
  /\ page = "return"
  /\ verifyReq # 0
  /\ outcome = "success" => gw[verifyReq] = "paid"
  /\ outcome = "failed" => gw[verifyReq] # "paid"
  /\ IF outcome = "success"
     THEN /\ lsPaymentResult' = [present |-> TRUE, txRef |-> verifyReq,
                                 userAmount |-> verifyRouteUserAmount(verifyReq)]
          /\ status' = St("success", "confirmed")
     ELSE /\ status' = St("alert", IF outcome = "failed" THEN "notCompleted"
                                                         ELSE "verifyError")
          /\ UNCHANGED lsPaymentResult
  /\ verifyDup' = 0
  /\ verifyReq' = 0
  /\ redirectTimer' = TRUE
  /\ UNCHANGED <<lsAppState, lsPendingCard, page, urlTxRef, card, amount, needsReset,
                 pendingPayment, isVerifying, receipt, nfcSupported, isReading,
                 isWriting, isProcessing, initiateReq, readers, writes, envVars,
                 obsVars, calc>>

\* router.push("/") of the return page: HomeContent mounts at "/", without
\* a tx_ref
ReturnPush ==
  /\ page = "return"
  /\ redirectTimer
  /\ PageLoad(0)

InitReturn == InitPage /\ scope = "returnFlow" /\ deviceNfc = TRUE /\ calc = NoCalc

\* the navigation the application itself performs, and the customer's taps
NextReturn ==
  \/ PageLoad(0)
  \/ handleReadCard(TRUE)
  \/ \E t \in Serials : onreading(t)
  \/ handleChapaRefill
  \/ \E ok \in BOOLEAN : InitiateResponse(ok)
  \/ Redirect
  \/ \E r \in Refs : GatewayPay(r)
  \/ \E tx \in 0..MaxRefs : ReturnPageLoad(tx)
  \/ \E outcome \in {"success", "failed", "error"} : ReturnVerifyResponse(outcome)
  \/ ReturnPush

\* the fetch of the return page settles and its timer fires
FairReturn ==
  /\ WF_vars(\E outcome \in {"success", "failed", "error"} : ReturnVerifyResponse(outcome))
  /\ WF_vars(ReturnPush)

SpecReturn == InitReturn /\ [][NextReturn]_vars /\ FairReturn

\* ------------------------------------------------- applying a verified payment
\* The page right after verifyPaymentFromUrl has promoted checkout 1 for card
\* c: the payment is pending, the card read before the checkout is shown and
\* no read handler is registered yet.
VerifiedFor(c) ==
  LET shown == [serialNumber |-> c, balance |-> InitialTags[c].cents]
      verified == [txRef |-> 1, userAmount |-> verifyRouteUserAmount(1),
                   cardSerial |-> c]
  IN /\ page = "main"
     /\ urlTxRef = 0
     /\ card = shown
     /\ amount = "50"
     /\ needsReset = FALSE
     /\ pendingPayment = verified
     /\ isVerifying = FALSE
     /\ receipt = NoReceipt
     /\ status = St("success", "confirmed")
     /\ nfcSupported = TRUE
     /\ isReading = FALSE
     /\ isWriting = FALSE
     /\ isProcessing = FALSE
     /\ verifyDup = 0
     /\ verifyReq = 0
     /\ initiateReq = FALSE
     /\ redirectTimer = FALSE
     /\ readers = <<>>
     /\ writes = <<>>
     /\ lsPendingCard = NoPendingCard
     /\ lsPaymentResult = NoPaymentResult
     /\ lsAppState = Snapshot(shown, "50", verified, NoReceipt, St("success", "confirmed"))
     /\ tags = InitialTags
     /\ gw = [r \in Refs |-> IF r = 1 THEN "paid" ELSE "none"]
     /\ applied = [r \in Refs |-> 0]
     /\ expired = FALSE
     /\ recordOf = 0
     /\ scope = "oneCheckout"
     /\ deviceNfc = TRUE
     /\ calc = NoCalc

InitLive == \E c \in Serials : VerifiedFor(c)

\* ndef.write of payment write i puts its text on tag t.  The number of payment
\* writes that land is capped by CreditLimit; the last of them is one that
\* lands on the card that was read, so that the cap never stands for a card
\* that is missed for ever.
WriteLandsLive(i, t) ==
  /\ WriteLands(i, t)
  /\ t # writes[i].serial => Credits + 1 < CreditLimit

\* the write reaches the card that the handler has just read
LandsOnCardRead == \E i \in 1..MaxReaders + 1 : WriteLandsLive(i, writes[i].serial)

\* the card the verified payment is for is presented
BoundCardPresented ==
  \E t \in Serials :
    /\ \/ pendingPayment.cardSerial = t
       \/ \E i \in 1..Len(readers) : readers[i].cardSerial = t
    /\ onreading(t)

\* Applying one verified payment: clicks of the read button, cards of either
\* kind in the field, writes that land on the card in the field, resolve or
\* are rejected.
NextLive ==
  \/ handleReadCard(TRUE)
  \/ \E t \in Serials : onreading(t)
  \/ \E i \in 1..MaxReaders + 1, t \in Serials : WriteLandsLive(i, t)
  \/ \E i \in 1..MaxReaders + 1 : WriteResolved(i)
  \/ \E i \in 1..MaxReaders + 1 : WriteRejected(i)

\* The customer clicks the read button whenever it is enabled and keeps
\* presenting the card of the payment; of the writes started again and again
\* one reaches the card, and the promise of a write that has reached a card
\* resolves.
FairLive ==
  /\ WF_vars(handleReadCard(TRUE))
  /\ SF_vars(BoundCardPresented)
  /\ SF_vars(LandsOnCardRead)
  /\ WF_vars(\E i \in 1..MaxReaders + 1 : WriteResolved(i))

SpecLive == InitLive /\ [][NextLive]_vars /\ FairLive

\* ------------------------------------------------------------ the tag codec
\* Texts are sequences of one-character strings.
Digit == {"0", "1", "2", "3", "4", "5", "6", "7", "8", "9"}
DigitChar == <<"0", "1", "2", "3", "4", "5", "6", "7", "8", "9">>
DigitValue(c) == CHOOSE n \in 0..9 : DigitChar[n + 1] = c

RECURSIVE digitsOf(_)
digitsOf(n) ==
  IF n < 10 THEN <<DigitChar[n + 1]>>
  ELSE Append(digitsOf(n \div 10), DigitChar[(n % 10) + 1])

\* newBalance.toFixed(2) of a balance of the given cents
toFixed2(cents) ==
  LET a == IF cents < 0 THEN -cents ELSE cents
  IN (IF cents < 0 THEN <<"-">> ELSE <<>>)
       \o digitsOf(a \div 100)
       \o <<".", DigitChar[((a % 100) \div 10) + 1], DigitChar[(a % 10) + 1]>>

\* `BAL:${newBalance.toFixed(2)}`
balanceText(cents) == <<"B", "A", "L", ":">> \o toFixed2(cents)

\* the records of a message as the reading event delivers them
KnownEncodings == {"utf-8", "utf-16"}
TextRecord(t) == [data |-> TRUE, encoding |-> "utf-8", chars |-> t]
NoDataRecord == [data |-> FALSE, encoding |-> "utf-8", chars |-> <<>>]
BadEncodingRecord == [data |-> TRUE, encoding |-> "x-unknown", chars |-> <<"7">>]

\* the message ndef.write(text) leaves on the tag: one text record
writtenMessage(text) == <<TextRecord(text)>>

NullText == [kind |-> "null", chars |-> <<>>]

\* the body of the try block: new TextDecoder(label) throws on a label it
\* does not know; decode() itself never throws (bytes that are no text come
\* out as replacement characters, which are characters without digits)
tryDecode(record) ==
  IF ~record.data THEN NullText
  ELSE IF record.encoding \notin KnownEncodings THEN [kind |-> "throw", chars |-> <<>>]
  ELSE [kind |-> "text", chars |-> record.chars]

\* a decodeRecord that lets the exception through
decodeRecordNoCatch(record) == tryDecode(record)

\* decodeRecord: the catch block turns the exception into null
decodeRecord(record) ==
  LET decoded == tryDecode(record)
  IN IF decoded.kind = "throw" THEN NullText ELSE decoded

\* \d+ from position i: the index of the last digit of the run (i - 1 if none)
RECURSIVE digitsEnd(_, _)
digitsEnd(text, i) ==
  IF i <= Len(text) /\ text[i] \in Digit THEN digitsEnd(text, i + 1) ELSE i - 1

\* -?\d+(?:\.\d+)? tried at position i: the index of the last character of
\* the match, 0 if there is none
matchAt(text, i, signed) ==
  LET d == IF signed /\ text[i] = "-" THEN i + 1 ELSE i
      e == digitsEnd(text, d)
  IN IF e < d THEN 0
     ELSE IF e + 1 <= Len(text) /\ text[e + 1] = "." /\ digitsEnd(text, e + 2) >= e + 2
     THEN digitsEnd(text, e + 2)
     ELSE e

NoMatch == [found |-> FALSE, chars |-> <<>>]

\* String.prototype.match: the match at the leftmost position that has one
RECURSIVE firstMatch(_, _, _)
firstMatch(text, i, signed) ==
  IF i > Len(text) THEN NoMatch
  ELSE IF matchAt(text, i, signed) # 0
  THEN [found |-> TRUE, chars |-> SubSeq(text, i, matchAt(text, i, signed))]
  ELSE firstMatch(text, i + 1, signed)

\* a pattern without the sign: \d+(?:\.\d+)?
matchUnsignedNumber(text) == firstMatch(text, 1, FALSE)

\* textValue.match(/(-?\d+(?:\.\d+)?)/)
matchNumber(text) == firstMatch(text, 1, TRUE)

\* the number num / 10^scale with the trailing zeros of the fraction removed,
\* so that equal numbers are equal records (-0 is 0)
RECURSIVE Normal(_, _)
Normal(num, scale) ==
  IF scale > 0 /\ num % 10 = 0 THEN Normal(num \div 10, scale - 1)
  ELSE [num |-> num, scale |-> scale]

RECURSIVE naturalOf(_)
naturalOf(digits) ==
  IF digits = <<>> THEN 0
  ELSE 10 * naturalOf(SubSeq(digits, 1, Len(digits) - 1)) + DigitValue(digits[Len(digits)])

\* Number(match[1]) of a matched text
NumberOfChars(m) ==
  LET neg == m[1] = "-"
      body == IF neg THEN Tail(m) ELSE m
      dot == IF \E i \in 1..Len(body) : body[i] = "."
             THEN CHOOSE i \in 1..Len(body) : body[i] = "." ELSE 0
      digits == IF dot = 0 THEN body
                ELSE SubSeq(body, 1, dot - 1) \o SubSeq(body, dot + 1, Len(body))
      scale == IF dot = 0 THEN 0 ELSE Len(body) - dot
      n == naturalOf(digits)
  IN Normal(IF neg THEN -n ELSE n, scale)

\* the number a balance of the given cents is
NumberOfCents(cents) ==
  IF cents < 0
  THEN [num |-> -Normal(-cents, 2).num, scale |-> Normal(-cents, 2).scale]
  ELSE Normal(cents, 2)

Absent == [kind |-> "null", chars |-> <<>>, value |-> [num |-> 0, scale |-> 0]]
Raised == [kind |-> "throw", chars |-> <<>>, value |-> [num |-> 0, scale |-> 0]]

\* extractBalance on the records of a message: the loop over the records
RECURSIVE extractBalanceOfRecords(_)
extractBalanceOfRecords(records) ==
  IF records = <<>> THEN Absent
  ELSE LET textValue == decodeRecord(Head(records))
       IN IF textValue.kind = "throw" THEN Raised
          ELSE IF textValue.kind = "null" \/ textValue.chars = <<>>
          THEN extractBalanceOfRecords(Tail(records))
          ELSE LET match == matchNumber(textValue.chars)
               IN IF match.found
                  THEN [kind |-> "number", chars |-> match.chars,
                        value |-> NumberOfChars(match.chars)]
                  ELSE extractBalanceOfRecords(Tail(records))

\* everything but calc: the page is not opened while a helper is examined
pageVars == <<lsVars, page, urlTxRef, reactVars, asyncVars, envVars, obsVars>>

Balances == -MaxCents..MaxCents

\* characters of the decoded texts: a letter, the sign, the point, two digits
TextChars == {"x", "-", ".", "7", "0"}
Texts == UNION {[1..k -> TextChars] : k \in 0..MaxTextLen}
JunkRecords ==
  {NoDataRecord, BadEncodingRecord, TextRecord(<<>>), TextRecord(<<"x", "-", ".">>)}
JunkPrefixes == UNION {[1..k -> JunkRecords] : k \in 0..MaxJunk}
Messages ==
  {p \o <<TextRecord(t)>> \o s :
     p \in JunkPrefixes, t \in Texts, s \in {<<>>, <<TextRecord(<<"4", "2">>)>>}}

InitRoundTrip ==
  /\ InitPage /\ scope = "codec" /\ deviceNfc = TRUE
  /\ calc \in {[fn |-> "roundTrip", step |-> "balance", b |-> b,
                records |-> <<>>, out |-> Absent] : b \in Balances}

InitDecode ==
  /\ InitPage /\ scope = "codec" /\ deviceNfc = TRUE
  /\ calc \in {[fn |-> "decode", step |-> "written", b |-> 0,
                records |-> m, out |-> Absent] : m \in Messages}

\* ndef.write(`BAL:${newBalance.toFixed(2)}`)
WriteBalance ==
  /\ calc.fn = "roundTrip" /\ calc.step = "balance"
  /\ calc' = [calc EXCEPT !.step = "written",
                           !.records = writtenMessage(balanceText(calc.b))]
  /\ UNCHANGED pageVars

\* extractBalance(event.message)
ReadBalance ==
  /\ calc.fn \in {"roundTrip", "decode"} /\ calc.step = "written"
  /\ calc' = [calc EXCEPT !.step = "read",
                           !.out = extractBalanceOfRecords(calc.records)]
  /\ UNCHANGED pageVars

NextRoundTrip == WriteBalance \/ ReadBalance

SpecRoundTrip == InitRoundTrip /\ [][NextRoundTrip]_vars
SpecDecode == InitDecode /\ [][ReadBalance]_vars

\* --------------------------------------------------------- receipt amounts
\* The amounts of the receipt are products of IEEE 754 doubles printed by
\* toFixed(2).  Their integers exceed the range of the checker's integers, so
\* a natural number is a sequence of limbs, least significant first, without
\* leading zero limbs (zero is the empty sequence).
LimbBits == 15
LimbBase == 2 ^ LimbBits
MantissaBits == 53

RECURSIVE limbsOf(_)
limbsOf(n) == IF n = 0 THEN <<>> ELSE <<n % LimbBase>> \o limbsOf(n \div LimbBase)

RECURSIVE intOf(_)
intOf(x) == IF x = <<>> THEN 0 ELSE x[1] + LimbBase * intOf(Tail(x))

\* x * s + carry for a small s
RECURSIVE mulSmall(_, _, _)
mulSmall(x, s, carry) ==
  IF x = <<>> THEN limbsOf(carry)
  ELSE LET v == x[1] * s + carry
       IN IF Tail(x) = <<>> /\ v = 0 THEN <<>>
          ELSE <<v % LimbBase>> \o mulSmall(Tail(x), s, v \div LimbBase)

\* quotient and remainder of x by a small d, from the most significant limb
RECURSIVE divSmall(_, _)
divSmall(x, d) ==
  IF x = <<>> THEN [q |-> <<>>, r |-> 0]
  ELSE LET upper == divSmall(Tail(x), d)
           v == upper.r * LimbBase + x[1]
           digit == v \div d
       IN [q |-> IF upper.q = <<>> /\ digit = 0 THEN <<>> ELSE <<digit>> \o upper.q,
           r |-> v % d]

RECURSIVE bitsOfInt(_)
bitsOfInt(n) == IF n = 0 THEN 0 ELSE 1 + bitsOfInt(n \div 2)

\* number of significant bits of x
bitLength(x) ==
  IF x = <<>> THEN 0 ELSE LimbBits * (Len(x) - 1) + bitsOfInt(x[Len(x)])

isOdd(x) == x # <<>> /\ x[1] % 2 = 1

\* x without its n least significant limbs
dropLimbs(x, n) == IF n >= Len(x) THEN <<>> ELSE SubSeq(x, n + 1, Len(x))

\* x shifted right by t bits: the quotient, the last bit shifted out and
\* whether a 1 was shifted out before it (sticky)
shiftRight(x, t, sticky) ==
  IF t = 0 THEN [q |-> x, last |-> 0, sticky |-> sticky]
  ELSE LET n == (t - 1) \div LimbBits
           low == divSmall(dropLimbs(x, n), 2 ^ ((t - 1) % LimbBits))
           h == divSmall(low.q, 2)
       IN [q |-> h.q, last |-> h.r,
           sticky |-> \/ sticky
                      \/ low.r # 0
                      \/ \E i \in 1..Len(x) : i <= n /\ x[i] # 0]

\* round to nearest, ties to even: the rounding of every double operation
roundNearestEven(x, t, sticky) ==
  LET r == shiftRight(x, t, sticky)
  IN IF r.last = 1 /\ (r.sticky \/ isOdd(r.q)) THEN mulSmall(r.q, 1, 1) ELSE r.q

\* 2^k
powerOfTwo(k) ==
  [i \in 1..(k \div LimbBits) + 1 |->
     IF i = (k \div LimbBits) + 1 THEN 2 ^ (k % LimbBits) ELSE 0]

\* spare bits kept while a decimal literal is divided
GuardBits == 70

\* the double of the decimal literal num/den (0.15 is 15/100): the nearest
\* m * 2^e with a mantissa m of 53 bits
doubleOf(num, den) ==
  LET scaled == divSmall(mulSmall(powerOfTwo(GuardBits), num, 0), den)
      t == bitLength(scaled.q) - MantissaBits
  IN [m |-> roundNearestEven(scaled.q, t, scaled.r # 0), e |-> t - GuardBits]

\* a * d in double arithmetic, a a whole number that is a double itself
timesInt(d, a) ==
  LET product == mulSmall(d.m, a, 0)
      t == IF bitLength(product) > MantissaBits
           THEN bitLength(product) - MantissaBits ELSE 0
  IN [m |-> roundNearestEven(product, t, FALSE), e |-> d.e + t]

\* Number(d.toFixed(2)) in cents, for d >= 0 below 2^53: toFixed takes the
\* n for which n / 100 is nearest to the exact value of d, the larger n of two
centsOfFixed2(d) ==
  LET r == shiftRight(mulSmall(d.m, 100, 0), -d.e, FALSE)
  IN intOf(r.q) + r.last

\* vat: Number((userAmount * 0.15).toFixed(2))
receiptVat(a) == centsOfFixed2(timesInt(doubleOf(15, 100), a))
\* a fee taken at the rate of the vat
serviceFeeAtVatRate(a) == receiptVat(a)
\* serviceFee: Number((userAmount * 0.015).toFixed(2))
receiptServiceFee(a) == centsOfFixed2(timesInt(doubleOf(15, 1000), a))
\* total: Number((userAmount * 1.165).toFixed(2))
receiptTotal(a) == centsOfFixed2(timesInt(doubleOf(1165, 1000), a))

BaseAmounts == 1..MaxBase

InitReceipt ==
  /\ InitPage /\ scope = "receipt" /\ deviceNfc = TRUE
  /\ calc \in {[fn |-> "receipt", step |-> "paid", amount |-> a,
                vat |-> 0, serviceFee |-> 0, total |-> 0] : a \in BaseAmounts}

\* const receiptData = {...} in the reading handler (amounts in cents)
BuildReceipt ==
  /\ calc.fn = "receipt" /\ calc.step = "paid"
  /\ calc.amount > 0 /\ calc.amount <= MAX_AMOUNT
  /\ calc' = [calc EXCEPT !.step = "receipt",
                           !.vat = receiptVat(calc.amount),
                           !.serviceFee = receiptServiceFee(calc.amount),
                           !.total = receiptTotal(calc.amount)]
  /\ UNCHANGED pageVars

SpecReceipt == InitReceipt /\ [][BuildReceipt]_vars

\* ------------------------------------------------------ the initiate route
\* body of the POST to /api/chapa that handleChapaRefill sends
requestBody(a, c) == [amount |-> a, cardSerial |-> c]

\* a route that charges what was requested
chapaPayloadOfRequest(body, r) ==
  [amount |-> digitsOf(body.amount), currency |-> "ETB", tx_ref |-> r,
   meta |-> [cardSerial |-> body.cardSerial]]

\* payload the route sends to the gateway: only cardSerial is read from the
\* body of the request
chapaPayload(body, r) ==
  [amount |-> digitsOf(CHARGE_AMOUNT), currency |-> "ETB", tx_ref |-> r,
   meta |-> [cardSerial |-> body.cardSerial]]

NoPayload ==
  [amount |-> <<>>, currency |-> "", tx_ref |-> 0, meta |-> [cardSerial |-> "none"]]

InitInitiate ==
  /\ InitPage /\ scope = "initiate" /\ deviceNfc = TRUE
  /\ calc \in {[fn |-> "initiate", step |-> "submitted", body |-> requestBody(a, c),
                payload |-> NoPayload] : a \in BaseAmounts, c \in Serials}

\* POST of the initiate route up to its fetch of the gateway
PostInitiate ==
  /\ calc.fn = "initiate" /\ calc.step = "submitted"
  /\ calc' = [calc EXCEPT !.step = "sent", !.payload = chapaPayload(calc.body, 1)]
  /\ UNCHANGED pageVars

SpecInitiate == InitInitiate /\ [][PostInitiate]_vars

\* ----------------------------------------------------- the two server routes
\* what the gateway does with a call of the initiate route, and of the
\* verify route
InitiateAnswers == {"checkout", "noUrl", "notOk", "failedFetch"}
VerifyAnswers == {"success", "other", "notOk", "failedFetch"}

\* POST of /api/chapa past the check of the key: the call of the gateway and
\* the answer made of its response
chapaAnswered(answer) ==
  CASE answer = "checkout" -> [status |-> 200, called |-> TRUE, checkoutUrl |-> TRUE]
    [] answer = "noUrl" -> [status |-> 200, called |-> TRUE, checkoutUrl |-> FALSE]
    [] answer = "notOk" -> [status |-> 400, called |-> TRUE, checkoutUrl |-> FALSE]
    [] OTHER -> [status |-> 500, called |-> TRUE, checkoutUrl |-> FALSE]

\* an initiate route that does not look at CHAPA_SECRET_KEY
POSTWithoutKeyCheck(hasKey, answer) == chapaAnswered(answer)

\* POST of /api/chapa: the answer to the page, and whether the gateway was
\* called
POST(hasKey, answer) ==
  IF ~hasKey THEN [status |-> 500, called |-> FALSE, checkoutUrl |-> FALSE]
  ELSE chapaAnswered(answer)

\* GET of /api/chapa/verify for a request that carries a tx_ref
GET(hasKey, answer) ==
  IF ~hasKey THEN [status |-> 500, called |-> FALSE, payloadStatus |-> "none"]
  ELSE CASE answer = "success" -> [status |-> 200, called |-> TRUE, payloadStatus |-> "success"]
         [] answer = "other" -> [status |-> 200, called |-> TRUE, payloadStatus |-> "failed"]
         [] answer = "notOk" -> [status |-> 400, called |-> TRUE, payloadStatus |-> "none"]
         [] OTHER -> [status |-> 500, called |-> TRUE, payloadStatus |-> "none"]

\* response.ok
responseOk(response) == response.status = 200

\* how verifyPaymentFromUrl reads the answer of the verify route
verifyOutcome(response) ==
  IF ~responseOk(response) THEN "error" ELSE response.payloadStatus

\* the page is served by the routes of a server that has the key or not
InitServer ==
  /\ InitPage /\ scope = "server" /\ deviceNfc = TRUE
  /\ calc \in {[fn |-> "server", secretKey |-> k] : k \in BOOLEAN}

\* the server is started again with or without CHAPA_SECRET_KEY
SetSecretKey(k) ==
  /\ calc.secretKey # k
  /\ calc' = [calc EXCEPT !.secretKey = k]
  /\ UNCHANGED pageVars

\* the initiate route answers the POST of handleChapaRefill
ServedInitiate ==
  \E answer \in InitiateAnswers :
    LET response == POST(calc.secretKey, answer)
    IN InitiateResponse(responseOk(response) /\ response.checkoutUrl)

\* the verify route answers the GET of verifyPaymentFromUrl
ServedVerify ==
  \E answer \in VerifyAnswers :
    VerifyResponse(verifyOutcome(GET(calc.secretKey, answer)))

NextServer ==
  \/ \E tx \in 0..MaxRefs : PageLoad(tx)
  \/ handleReadCard(TRUE)
  \/ \E t \in Serials : onreading(t)
  \/ handleChapaRefill
  \/ ServedInitiate
  \/ Redirect
  \/ \E r \in Refs : GatewayPay(r)
  \/ ServedVerify
  \/ \E k \in BOOLEAN : SetSecretKey(k)

SpecServer == InitServer /\ [][NextServer]_vars

\* ==================================================================== claims
\* the step in which the adapter puts payment write i on a tag
PaymentWriteLands(i) ==
  /\ i \in 1..Len(writes)
  /\ writes[i].kind = "apply"
  /\ writes[i].phase = "pending"
  /\ Len(writes') = Len(writes)
  /\ writes'[i].phase = "acked"

\* the step in which payment write i, acknowledged, is reported to the page
PaymentWriteResolves(i) ==
  /\ i \in 1..Len(writes)
  /\ writes[i].kind = "apply"
  /\ WriteResolved(i)

\* the step in which payment write i is rejected
PaymentWriteRejects(i) ==
  /\ i \in 1..Len(writes)
  /\ writes[i].kind = "apply"
  /\ WriteRejected(i)

\* the credit the paid checkouts justify, in cents
PaidCents == 100 * DEFAULT_USER_AMOUNT * Cardinality({r \in Refs : gw[r] = "paid"})

\* ------------------------------------------------------------------------ C1
\* C1: a verified payment raises the balance of its bound card at most once:
\* whenever a payment write lands on the card the payment is bound to, that
\* card holds no more than its initial balance plus the amounts of the
\* checkouts paid so far.
C1_AtMostOnce ==
  [][\A i \in 1..MaxReaders :
       (PaymentWriteLands(i) /\ writes'[i].landed = writes[i].cp.cardSerial)
       => extractBalance(tags'[writes[i].cp.cardSerial]).cents
            <= InitialTags[writes[i].cp.cardSerial].cents + PaidCents]_vars

\* ------------------------------------------------------------------------ C2
\* C2: when a payment is pending for card C1 and a card C2 # C1 is read, the
\* pending payment stays as it is in memory and in the store, no write is
\* started, no tag changes, no receipt appears, and the scanning handlers
\* stay as they are (so a later reading of C1 still applies the payment).
C2_MismatchKeepsPayment ==
  [][\A t \in Serials :
       (onreading(t) /\ pendingPayment # NoPayment /\ pendingPayment.cardSerial # t)
       => /\ pendingPayment' = pendingPayment
          /\ lsAppState'.pendingPayment = pendingPayment
          /\ writes' = writes
          /\ readers' = readers
          /\ tags' = tags
          /\ applied' = applied
          /\ receipt' = receipt]_vars

\* ------------------------------------------------------------------------ C3
\* C3: a payment write lands only on the tag whose serial number the payment
\* is bound to.
C3_LandsOnBoundCard ==
  [][\A i \in 1..MaxReaders :
       PaymentWriteLands(i) => writes'[i].landed = writes[i].cp.cardSerial]_vars

\* ------------------------------------------------------------------------ C4
\* C4: once a pending record is older than the TTL, a page load treats it as
\* absent and removes it from the store, and a verification no longer turns
\* it into a pending payment.
C4_TtlExpiry ==
  [][expired =>
       /\ (\E tx \in 0..MaxRefs : PageLoad(tx))
            => (pendingPayment' = NoPayment /\ ~PersistedPending')
       /\ (\E outcome \in {"success", "failed", "error"} : VerifyResponse(outcome))
            => pendingPayment' = NoPayment]_vars

C6_EndToEnd ==
  [][\A i \in 1..MaxReaders :
       (PaymentWriteResolves(i) /\ writes[i].landed = writes[i].serial)
       => /\ tags'[writes[i].serial] = BalTag(writes[i].value)
          /\ receipt' = [txRef |-> writes[i].cp.txRef, amount |-> writes[i].cp.userAmount]
          /\ ~lsPendingCard'.present
          /\ ~lsAppState'.present]_vars

C8_DurableUntilCredited ==
  (page = "main"
     /\ \E i \in 1..Len(writes) :
          /\ writes[i].kind = "apply"
          /\ writes[i].phase = "pending"
          /\ applied[writes[i].cp.txRef] = 0)
  => PersistedPending

\* ------------------------------------------------------------------------ C9
\* C9: a reading handler starts a payment write only for a pending payment
\* the persistent store holds at that moment.
C9_GatedByStore ==
  [][\A t \in Serials :
       onreading(t)
       => \A k \in (Len(writes) + 1)..Len(writes') :
            writes'[k].kind = "apply"
            => (lsAppState.present /\ lsAppState.pendingPayment = writes'[k].cp)]_vars

\* ----------------------------------------------------------------------- C10
\* C10: after a verification that did not succeed (an outcome other than
\* success, or a failed verify call), no pending payment is left in memory or
\* in the persistent store, and the status is an alert.
C10_FailedVerificationPurges ==
  [][\A outcome \in {"failed", "error"} :
       VerifyResponse(outcome)
       => /\ pendingPayment' = NoPayment
          /\ ~PersistedPending'
          /\ status'.tone = "alert"]_vars

\* ----------------------------------------------------------------------- C11
\* the step in which a successful verification finds no pending record at all
LostSessionStep ==
  /\ VerifyResponse("success")
  /\ ~PersistedPending

\* C11: when a successful verification of a returned reference finds no
\* pending record in the store, the page reports that the card info was lost,
\* ends in Idle (no pending payment, no card snapshot), and no pending payment
\* is left that a later card read could apply: none in memory, none in the
\* store, none captured by a registered read handler, none being written.
C11_LostSession ==
  [][LostSessionStep
     => /\ status' = St("alert", "cardInfoLost")
        /\ pendingPayment' = NoPayment
        /\ ~PersistedPending'
        /\ card' = NoCard
        /\ \A i \in 1..Len(readers') : readers'[i] = NoPayment
        /\ \A i \in 1..Len(writes') : writes'[i].kind # "apply"]_vars

\* ----------------------------------------------------------------------- C12
\* the step in which a successful verification promotes the stored card record
PromotionStep ==
  /\ VerifyResponse("success")
  /\ storedCardFound(lsPendingCard)

\* C12: a successful verification of reference R promotes only the record
\* written by the refill request that produced R, with that record's card; a
\* success for any other reference leaves the stored record unpromoted.
C12_BoundToOwnReference ==
  [][PromotionStep
     => /\ recordOf = verifyReq
        /\ pendingPayment'.txRef = recordOf
        /\ pendingPayment'.cardSerial = lsPendingCard.serialNumber]_vars

\* ----------------------------------------------------------------------- C13
\* C13: after a successful verification the verified pending payment carries
\* the amount the gateway confirmed for that reference, whatever amount was
\* requested locally.
C13_GatewayAmountAuthoritative ==
  [][PromotionStep
     => pendingPayment'.userAmount = gatewayAmount(verifyReq)]_vars

\* ----------------------------------------------------------------------- C14
\* C14: the persistent store never holds more than one pending payment: the
\* card record of a refill request not yet verified and a verified pending
\* payment saved with the page state are never there together.
C14_SingleSlot ==
  ~(/\ lsPendingCard.present
    /\ lsAppState.present
    /\ lsAppState.pendingPayment # NoPayment)

\* ----------------------------------------------------------------------- C15
\* C15: the card record of a refill request is in the store only once the
\* initiate call has produced a reference for it, and when the initiate call
\* fails no record of that attempt remains and the page shows the card with
\* an alert.
C15_RecordOnlyWhenInitiated ==
  [][/\ lsPendingCard'.present => recordOf' # 0
     /\ InitiateResponse(FALSE)
        => /\ ~lsPendingCard'.present
           /\ status'.tone = "alert"
           /\ card' # NoCard
           /\ pendingPayment' = NoPayment]_vars

\* ----------------------------------------------------------------------- C16
\* C16: at most one tag write is in flight at any time, and a reading event
\* that arrives while a write is in flight starts no further write, however
\* many read handlers the clicks of the read button have registered.
C16_NoConcurrentWrites ==
  [][/\ Len(writes') <= 1
     /\ (writes # <<>> /\ \E t \in Serials : onreading(t))
        => writes' = writes]_vars

\* ----------------------------------------------------------------------- C17
\* the payment has been written to card c and the receipt is shown
Reconciled(c) ==
  /\ receipt # NoReceipt
  /\ tags[c].kind = "bal"
  /\ tags[c].cents >= InitialTags[c].cents + 100 * verifyRouteUserAmount(1)

\* C17: while the customer keeps presenting the card of a verified pending
\* payment and writes eventually reach it, the page eventually shows the
\* receipt with the card's balance raised by the amount, whatever write
\* failures and other cards come in between.
C17_EventuallyApplied ==
  \A c \in Serials :
    (pendingPayment # NoPayment /\ pendingPayment.cardSerial = c) ~> Reconciled(c)

\* the receipt of the payment is shown after a card other than the paid one
\* has been in the field and the payment has reached the paid card
C17_Witness ==
  \E c \in Serials :
    /\ Reconciled(c)
    /\ receipt.txRef = 1
    /\ pendingPayment = NoPayment
    /\ card.serialNumber = c
    /\ \E i \in 1..Len(readers) : readers[i].cardSerial = c
    /\ \E d \in Serials \ {c} : tags[d] # InitialTags[d]

\* ----------------------------------------------------------------------- C18
\* C18: for every balance with two fractional digits, zero and negative
\* balances included, reading the message that writing the balance leaves on
\* the tag gives the balance back.
C18_RoundTrip ==
  (calc.fn = "roundTrip" /\ calc.step = "read")
    => /\ calc.out.kind = "number"
       /\ calc.out.value = NumberOfCents(calc.b)

\* a negative balance with a fraction has been written and read back
C18_Witness ==
  /\ calc.fn = "roundTrip" /\ calc.step = "read"
  /\ calc.b = -105
  /\ calc.records = <<TextRecord(<<"B", "A", "L", ":", "-", "1", ".", "0", "5">>)>>
  /\ calc.out.value = [num |-> -105, scale |-> 2]

\* ----------------------------------------------------------------------- C19
\* is s a number as the spec writes it: an optional sign, digits, and
\* optionally a point followed by digits?
IsNumeric(s) ==
  LET body == IF s # <<>> /\ s[1] = "-" THEN Tail(s) ELSE s
  IN /\ body # <<>>
     /\ \A i \in 1..Len(body) : body[i] \in Digit \cup {"."}
     /\ Cardinality({i \in 1..Len(body) : body[i] = "."}) <= 1
     /\ body[1] \in Digit
     /\ body[Len(body)] \in Digit

NumericSpans(t) ==
  {ij \in (1..Len(t)) \X (1..Len(t)) :
     ij[1] <= ij[2] /\ IsNumeric(SubSeq(t, ij[1], ij[2]))}

\* the numeric substring of t that starts first and, of those, ends last
FirstNumeric(t) ==
  LET first == CHOOSE ij \in NumericSpans(t) :
                 \A kl \in NumericSpans(t) :
                   ij[1] < kl[1] \/ (ij[1] = kl[1] /\ ij[2] >= kl[2])
  IN SubSeq(t, first[1], first[2])

\* the text a record carries: none without data or with data no decoder reads
CarriedText(record) ==
  IF record.data /\ record.encoding \in KnownEncodings THEN record.chars ELSE <<>>

\* C19: whatever the records of a message are, reading never raises; it
\* returns null exactly when no record carries a numeric substring, and
\* otherwise the number of the first numeric substring of the first record
\* that carries one.
C19_DecodeRobust ==
  (calc.fn = "decode" /\ calc.step = "read")
    => LET rs == calc.records
           numeric == {k \in 1..Len(rs) : NumericSpans(CarriedText(rs[k])) # {}}
       IN /\ calc.out.kind # "throw"
          /\ calc.out.kind = "null" <=> numeric = {}
          /\ numeric # {}
             => LET k == CHOOSE k \in numeric : \A j \in numeric : k <= j
                IN /\ calc.out.chars = FirstNumeric(CarriedText(rs[k]))
                   /\ calc.out.value = NumberOfChars(FirstNumeric(CarriedText(rs[k])))

\* a record of unknown encoding and a text with a lone sign and a lone point
\* in front of its number have been read
C19_Witness ==
  /\ calc.fn = "decode" /\ calc.step = "read"
  /\ calc.records = <<BadEncodingRecord, TextRecord(<<"-", ".", "-", "7">>),
                      TextRecord(<<"4", "2">>)>>
  /\ calc.out.kind = "number"
  /\ calc.out.chars = <<"-", "7">>

\* ----------------------------------------------------------------------- C20
\* C20: for every base amount that validation accepts, the receipt has
\* vat = 15% of the base, serviceFee = 1.5% of the base rounded to a nearest
\* cent (either neighbour when the fee lies half way), and
\* total = base + vat + serviceFee exactly.  Amounts in cents.
C20_ReceiptArithmetic ==
  (calc.fn = "receipt" /\ calc.step = "receipt")
    => LET base == 100 * calc.amount
       IN /\ calc.vat = 15 * calc.amount
          /\ 2 * calc.serviceFee - 3 * calc.amount \in {-1, 0, 1}
          /\ calc.total = base + calc.vat + calc.serviceFee

\* ----------------------------------------------------------------------- C21
\* C21: the receipt built for a base amount of 100 has vat 15.00, service
\* fee 1.50 and total 116.50 (in cents: 1500, 150, 11650).
C21_FeeCase ==
  (calc.fn = "receipt" /\ calc.step = "receipt" /\ calc.amount = 100)
    => /\ calc.vat = 1500
       /\ calc.serviceFee = 150
       /\ calc.total = 11650

\* the receipt for 100 has been built
C21_Witness ==
  /\ calc.fn = "receipt" /\ calc.step = "receipt"
  /\ calc.amount = 100
  /\ calc.total = calc.amount * 100 + calc.vat + calc.serviceFee

\* ----------------------------------------------------------------------- C22
\* C22: the receipt of a reference is created once: when a payment write for
\* reference R resolves and the handler builds the receipt, no receipt for R
\* is on the page yet, so that a shown receipt is never built again or
\* replaced by a further reading event.
C22_OneReceipt ==
  [][\A i \in 1..MaxReaders :
       PaymentWriteResolves(i) => receipt.txRef # writes[i].cp.txRef]_vars

\* ----------------------------------------------------------------------- C23
\* C23: whatever amount the client requests, the amount the initiate route
\* sends to the gateway is "1".
C23_InitialisedForOne ==
  (calc.fn = "initiate" /\ calc.step = "sent")
    => calc.payload.amount = <<"1">>

\* a checkout requested for 100 ETB has been sent to the gateway
C23_Witness ==
  /\ calc.fn = "initiate" /\ calc.step = "sent"
  /\ calc.body.amount = 100
  /\ calc.payload.amount = <<"1">>
  /\ calc.payload.meta.cardSerial = calc.body.cardSerial

\* ----------------------------------------------------------------------- C24
\* C24: once the gateway has sent the browser back to the return URL with the
\* reference of a paid checkout, the main page eventually holds the verified
\* pending payment of that reference.
C24_ReturnReachesVerification ==
  \A r \in Refs :
    (page = "return" /\ urlTxRef = r /\ gw[r] = "paid")
      ~> (page = "main" /\ pendingPayment.txRef = r)

\* the return page has confirmed a payment and the main page is open again
C24_ReturnedConfirmed ==
  /\ page = "main"
  /\ lsPaymentResult.present
  /\ gw[lsPaymentResult.txRef] = "paid"

\* ----------------------------------------------------------------------- C25
\* C25: a reading of a card other than the one the verified pending payment
\* is bound to, delivered to handlers registered with that payment, gives a "card mismatch" alert and changes nothing: the card
\* snapshot, the pending payment, the receipt and the writes are as before.
C25_MismatchChangesNothing ==
  [][\A t \in Serials :
       (/\ onreading(t)
        /\ pendingPayment # NoPayment
        /\ pendingPayment.cardSerial # t
        /\ \A i \in 1..Len(readers) : readers[i] = pendingPayment)
       => /\ status' = St("alert", "cardMismatch")
          /\ UNCHANGED <<card, pendingPayment, receipt, writes>>]_vars

\* ----------------------------------------------------------------------- C26
\* is txt "BAL:" followed by digits with exactly two of them after the point?
TwoDigitBalanceText(txt) ==
  LET n == Len(txt)
  IN /\ n >= 8
     /\ SubSeq(txt, 1, 4) = <<"B", "A", "L", ":">>
     /\ txt[n - 2] = "."
     /\ \A k \in (5..n) \ {n - 2} : txt[k] \in Digit

\* C26: a reading of the card the payment is bound to starts a write of the
\* balance read in this very event plus the payment's amount, whatever
\* balance the page remembers; the text written is "BAL:" with two
\* fractional digits and decodes to that value; the tag the write lands on
\* holds that value.
C26_AppliedBalance ==
  [][/\ \A t \in Serials :
          (Len(writes') > Len(writes) /\ onreading(t)) =>
            \A j \in (Len(writes) + 1)..Len(writes') :
              LET w == writes'[j]
                  v == extractBalance(tags[t]).cents + w.cp.userAmount * 100
              IN /\ w.kind = "apply"
                 /\ w.value = v
                 /\ TwoDigitBalanceText(balanceText(w.value))
                 /\ extractBalanceOfRecords(writtenMessage(balanceText(w.value))).value
                      = NumberOfCents(v)
     /\ \A i \in 1..MaxReaders, t \in Serials :
          (PaymentWriteLands(i) /\ writes'[i].landed = t)
            => tags'[t] = BalTag(writes[i].value)]_vars

\* a write was started from a balance read that differs from the one read
\* before the checkout: the card had been credited in between
C26_Witness ==
  \E i \in 1..Len(writes) :
    /\ writes[i].kind = "apply"
    /\ writes[i].serial = "A1"
    /\ writes[i].value = InitialTags["A1"].cents + 2 * writes[i].cp.userAmount * 100

\* ----------------------------------------------------------------------- C27
\* C27: with no pending payment and no write under way, also after a payment
\* has been applied or the page was reset to home, a reading that yields a
\* balance only shows the card with that balance: no write is started and
\* the receipt and the (absent) pending payment are as before.
C27_PlainReadOnly ==
  [][\A t \in Serials :
       (/\ onreading(t)
        /\ pendingPayment = NoPayment
        /\ writes = <<>>
        /\ extractBalance(tags[t]).found)
       => /\ card' = [serialNumber |-> t, balance |-> extractBalance(tags[t]).cents]
          /\ writes' = <<>>
          /\ UNCHANGED <<receipt, pendingPayment, tags>>]_vars

\* ----------------------------------------------------------------------- C28
\* C28: a reading whose message yields no balance sets needsReset, leaves
\* the card snapshot and the pending payment as they were and starts no
\* write; and whenever needsReset is set (and no write is running) the reset
\* write is available, also while a verified payment is pending.
C28_NeedsInitialization ==
  [][/\ \A t \in Serials :
          (onreading(t) /\ ~extractBalance(tags[t]).found)
            => /\ needsReset'
               /\ UNCHANGED <<card, pendingPayment, writes, tags>>
     /\ (page' = "main" /\ needsReset' /\ ~isWriting') => ResetAvailable']_vars

\* ----------------------------------------------------------------------- C29
\* C29: a reading event is processed only while a scan is in progress: once
\* the scan has delivered its result (or was cancelled) and the page shows
\* no scan any more, no further reading event is processed.
C29_ScanEnds ==
  [][\A t \in Serials : onreading(t) => isReading]_vars

\* ----------------------------------------------------------------------- C30
\* C30: every failed external call (initiate, verify, scan, reading, payment
\* write, reset write) ends in an alert status.
C30_FailuresClassified ==
  [][/\ InitiateResponse(FALSE) => status'.tone = "alert"
     /\ VerifyResponse("error") => status'.tone = "alert"
     /\ handleReadCard(FALSE) => status'.tone = "alert"
     /\ onreadingerror => status'.tone = "alert"
     /\ \A i \in 1..MaxReaders : WriteRejected(i) => status'.tone = "alert"]_vars

C32_DuplicateVerification ==
  [][\A r \in Refs :
       (/\ verifyReq + verifyDup = r
        /\ \/ VerifyResponse("success") /\ verifyDup = 0
           \/ DupVerifyResponse("success") /\ verifyReq = 0
        /\ pendingPayment.txRef = r)
       => /\ pendingPayment' = pendingPayment
          /\ lsAppState'.pendingPayment = pendingPayment
          /\ status' = St("success", "confirmed")]_vars

C34_ReceiptNamesCreditedCard ==
  [][(/\ page = "main" /\ page' = "main"
      /\ receipt # NoReceipt
      /\ receipt' = receipt)
     => card'.serialNumber = card.serialNumber]_vars

\* ----------------------------------------------------------------------- C35
\* the payments a reading can apply now or after a reload: the pending one,
\* its persisted copy, those captured by registered handlers and by writes
KnownPayments ==
  ({pendingPayment}
     \cup (IF lsAppState.present THEN {lsAppState.pendingPayment} ELSE {})
     \cup {readers[i] : i \in 1..Len(readers)}
     \cup {writes[i].cp : i \in 1..Len(writes)}) \ {NoPayment}

\* C35: a payment that a card read can apply comes into being only in a
\* step in which a verification of its reference is answered with success,
\* for a reference the gateway holds as paid; every other step only keeps
\* or copies payments that exist already.
C35_NoCreditWithoutConfirmation ==
  [][\A p \in KnownPayments' :
       \/ p \in KnownPayments
       \/ /\ gw[p.txRef] = "paid"
          /\ \/ verifyReq = p.txRef /\ VerifyResponse("success")
             \/ verifyDup = p.txRef /\ DupVerifyResponse("success")]_vars

\* a handler registered after a confirmed verification holds the payment,
\* while a failed verification and an abandoned checkout left none
C35_Witness ==
  /\ page = "main"
  /\ pendingPayment # NoPayment
  /\ gw[pendingPayment.txRef] = "paid"
  /\ readers = <<pendingPayment>>

\* ----------------------------------------------------------------------- C36
\* C36: handleChapaRefill called with no card snapshot sets an alert, sends
\* no request to the initiate route, creates no checkout and stores no
\* chapa_pending_card record.
C36_RefillNeedsCard ==
  [][(card = NoCard /\ handleChapaRefillCalled)
       => /\ status'.tone = "alert"
          /\ ~initiateReq'
          /\ UNCHANGED <<lsPendingCard, gw, isProcessing, pendingPayment>>]_vars

\* the handler has just turned down a call made without a card
C36_Witness ==
  /\ page = "main"
  /\ card = NoCard
  /\ status = St("alert", "readFirst")
  /\ ~lsPendingCard.present
  /\ ~initiateReq

\* ----------------------------------------------------------------------- C37
\* C37: without CHAPA_SECRET_KEY both routes answer 500 and do not call the
\* gateway; the page then gets an alert, no checkout is created and no
\* redirect is armed after a refill request, and no payment is promoted or
\* persisted after a verification.
C37_UnconfiguredProxy ==
  [][~calc.secretKey =>
       /\ \A a \in InitiateAnswers :
            POST(calc.secretKey, a).status = 500 /\ ~POST(calc.secretKey, a).called
       /\ \A a \in VerifyAnswers :
            GET(calc.secretKey, a).status = 500 /\ ~GET(calc.secretKey, a).called
       /\ (initiateReq /\ ServedInitiate)
            => /\ status'.tone = "alert"
               /\ ~redirectTimer'
               /\ UNCHANGED <<gw, page, pendingPayment>>
       /\ (verifyReq # 0 /\ ServedVerify)
            => /\ status'.tone = "alert"
               /\ pendingPayment' = pendingPayment
               /\ lsAppState'.pendingPayment = pendingPayment
               /\ ~redirectTimer']_vars

\* a server without the key has answered the verification of a paid checkout
C37_Witness ==
  /\ calc.fn = "server" /\ ~calc.secretKey
  /\ page = "main"
  /\ gw[1] = "paid"
  /\ status = St("alert", "verifyError")
  /\ pendingPayment = NoPayment
====
